---- MODULE Spec2Model ----
(***************************************************************************)
(* Model of bj-web/format-web-templates.py: the tree copier that mirrors   *)
(* an input directory into an output directory, copying binary files       *)
(* verbatim and substituting three markers in text files.                  *)
(*                                                                         *)
(* Strings (paths, file contents, program output) are sequences of tokens. *)
(* A path is the token sequence of its characters, "/" being os.sep and    *)
(* "." os.extsep; a multi-letter token ("html", "png", "wasm", "VER", ...) *)
(* stands for that run of ordinary letters.                                *)
(***************************************************************************)
EXTENDS Naturals, Sequences, FiniteSets, TLC

VARIABLES
  files,        \* the filesystem's regular files: path -> bytes
  dirs,         \* the filesystem's directories: set of paths
  git,          \* the state of the source-control tooling
  scanOrder,    \* the order os.scandir lists directory entries in
  args,         \* args.input, args.output after abspath
  VERSION_STR,  \* the module global: [isNone, str]
  pc,           \* position of the process
  walk,         \* the state of the find_files generator: stack of frames
  cur,          \* the loop variables in_fname, out_fname, rmode, wmode
  ifd,          \* state of the input handle of the with statement
  ofd,          \* state of the output handle of the with statement
  err,          \* the exception that ended the process ("" when none)
  last,         \* history: the file whose processing completed last
  used,         \* history: version strings substituted in this process
  queries,      \* history: source-control queries made by this process
  files0,       \* history: files at the start of the first run
  dirs0,        \* history: dirs at the start of the first run
  run,          \* which run of the program this is
  files1,       \* history: files at the end of the first run
  warned        \* the "exists" warning was logged

vars == <<files, dirs, git, scanOrder, args, VERSION_STR, pc, walk, cur,
          ifd, ofd, err, last, used, queries, files0, dirs0, run, files1,
          warned>>

(***************************************************************************)
(* Bounds of the model.                                                    *)
(***************************************************************************)
MaxFiles == 2   \* regular files in the input tree
MaxSegs == 3    \* segments a text content is assembled from (SpecText)

(***************************************************************************)
(* String helpers (Python str methods).                                    *)
(***************************************************************************)
startswith(s, prefix) ==
  Len(prefix) <= Len(s) /\ SubSeq(s, 1, Len(prefix)) = prefix

SliceFrom(s, n) == SubSeq(s, n + 1, Len(s))

\* str.rfind(c) as a 1-based index; 0 when c does not occur
rfind(s, c) ==
  LET hits == {i \in 1..Len(s) : s[i] = c}
  IN IF hits = {} THEN 0 ELSE CHOOSE i \in hits : \A j \in hits : j <= i

RECURSIVE rstrip(_, _)
rstrip(s, c) ==
  IF s # <<>> /\ s[Len(s)] = c THEN rstrip(SubSeq(s, 1, Len(s) - 1), c) ELSE s

IsWhite(c) == c \in {" ", "\n", "\r"}

RECURSIVE lstripWhite(_)
lstripWhite(s) == IF s # <<>> /\ IsWhite(Head(s)) THEN lstripWhite(Tail(s)) ELSE s

RECURSIVE rstripWhite(_)
rstripWhite(s) ==
  IF s # <<>> /\ IsWhite(s[Len(s)]) THEN rstripWhite(SubSeq(s, 1, Len(s) - 1))
  ELSE s

strip(s) == lstripWhite(rstripWhite(s))

\* str.replace(old, new) with count 1: the first occurrence only
RECURSIVE replaceFirst(_, _, _)
replaceFirst(s, old, new) ==
  IF Len(s) < Len(old) THEN s
  ELSE IF startswith(s, old) THEN new \o SliceFrom(s, Len(old))
  ELSE <<Head(s)>> \o replaceFirst(Tail(s), old, new)

\* str.replace(old, new): every non-overlapping occurrence, left to right
RECURSIVE replace(_, _, _)
replace(s, old, new) ==
  IF Len(s) < Len(old) THEN s
  ELSE IF startswith(s, old) THEN new \o replace(SliceFrom(s, Len(old)), old, new)
  ELSE <<Head(s)>> \o replace(Tail(s), old, new)

(***************************************************************************)
(* os.path on POSIX.                                                       *)
(***************************************************************************)
AllSeps(s) == \A i \in 1..Len(s) : s[i] = "/"

\* os.path.split: <<head, tail>>
split(p) ==
  LET i == rfind(p, "/")
      head == SubSeq(p, 1, i)
      tail == SliceFrom(p, i)
  IN <<IF head # <<>> /\ ~AllSeps(head) THEN rstrip(head, "/") ELSE head, tail>>

dirname(p) == split(p)[1]

\* os.path.join of two parts, the second relative
join(a, b) ==
  IF a = <<>> THEN b
  ELSE IF a[Len(a)] = "/" THEN a \o b
  ELSE a \o <<"/">> \o b

\* os.path.splitext: <<root, ext>>; leading dots of the basename are skipped
splitext(p) ==
  LET sepIndex == rfind(p, "/")
      dotIndex == rfind(p, ".")
  IN IF dotIndex > sepIndex
        /\ \E k \in (sepIndex + 1)..(dotIndex - 1) : p[k] # "."
     THEN <<SubSeq(p, 1, dotIndex - 1), SliceFrom(p, dotIndex - 1)>>
     ELSE <<p, <<>> >>

isfile(p) == p \in DOMAIN files
isdir(p) == p \in dirs

(***************************************************************************)
(* Program constants.                                                      *)
(***************************************************************************)
BIN_EXTS == {<<".", "wasm">>, <<".", "png">>}

\* the three markers: HTML comments "<!-- NAME -->"
MARK_NAV_BAR == <<"<!--", "NAV", "-->">>
MARK_VERSION == <<"<!--", "VER", "-->">>
MARK_GOOGLE == <<"<!--", "GA", "-->">>

\* the analytics fragment: starts and ends with a newline, holds an HTML
\* comment of its own
get_google_shit == <<"\n", "<!--", "gtag", "-->", "script", "\n">>

\* the navigation fragment: starts and ends with a newline
get_nav_bar == <<"\n", "nav", "\n">>

\* os.linesep on POSIX
linesep == <<"\n">>

(***************************************************************************)
(* Text-mode file objects (open(..., 'rt') / open(..., 'wt'), newline=None)*)
(***************************************************************************)
\* the token "BAD" is a byte sequence the text encoding cannot decode
CanDecode(bytes) == \A i \in 1..Len(bytes) : bytes[i] # "BAD"

\* reading in text mode translates "\r\n" and "\r" to "\n"
RECURSIVE UniversalNewlines(_)
UniversalNewlines(s) ==
  IF s = <<>> THEN <<>>
  ELSE IF startswith(s, <<"\r", "\n">>) THEN <<"\n">> \o UniversalNewlines(SliceFrom(s, 2))
  ELSE IF Head(s) = "\r" THEN <<"\n">> \o UniversalNewlines(Tail(s))
  ELSE <<Head(s)>> \o UniversalNewlines(Tail(s))

TextRead(bytes) == UniversalNewlines(bytes)

\* writing in text mode translates "\n" to os.linesep
TextWrite(s) == replace(s, <<"\n">>, linesep)

(***************************************************************************)
(* The source-control tooling, as subprocess.run sees it.                  *)
(*   "missing": no git executable on PATH (run raises FileNotFoundError)   *)
(*   "norepo" : git runs and fails: empty stdout                           *)
(*   "c1","c2": a repository whose HEAD is that commit (c1 precedes c2)    *)
(***************************************************************************)
GitStates == {"missing", "norepo", "c1", "c2"}

KnownCommits(g) ==
  IF g = "c1" THEN {<<"c1">>}
  ELSE IF g = "c2" THEN {<<"c1">>, <<"c2">>}
  ELSE {}

CommitDate(commit) == IF commit = <<"c1">> THEN <<"D1">> ELSE <<"D2">>

\* stdout of: git rev-parse --short HEAD
rev_parse_stdout(g) == IF g \in {"c1", "c2"} THEN <<g, "\n">> ELSE <<>>

\* stdout of: git show -s --format=%cd --date=format:%Y-%m-%d <commit>
show_stdout(g, commit) ==
  IF commit \in KnownCommits(g) THEN CommitDate(commit) \o <<"\n">> ELSE <<>>

\* get_version_str without the cache test
get_version_str_uncached ==
  IF git = "missing"
  THEN [raised |-> TRUE, ret |-> <<>>, global |-> VERSION_STR, ran |-> 1]
  ELSE LET commit == strip(rev_parse_stdout(git))
           date == strip(show_stdout(git, commit))
           v == date \o <<" ", "(">> \o commit \o <<")">>
       IN [raised |-> FALSE, ret |-> v,
           global |-> [isNone |-> FALSE, str |-> v], ran |-> 2]

\* get_version_str(): the value returned, the new VERSION_STR, the number
\* of subprocess.run calls made, and whether one of them raised
get_version_str ==
  IF ~VERSION_STR.isNone
  THEN [raised |-> FALSE, ret |-> VERSION_STR.str, global |-> VERSION_STR, ran |-> 0]
  ELSE IF git = "missing"
  THEN [raised |-> TRUE, ret |-> <<>>, global |-> VERSION_STR, ran |-> 1]
  ELSE LET commit == strip(rev_parse_stdout(git))
           date == strip(show_stdout(git, commit))
           v == date \o <<" ", "(">> \o commit \o <<")">>
       IN [raised |-> FALSE, ret |-> v,
           global |-> [isNone |-> FALSE, str |-> v], ran |-> 2]

(***************************************************************************)
(* Classifier and path remapper.                                           *)
(***************************************************************************)
is_binary_file_undotted(fname) ==
  LET ext == splitext(fname)[2]
  IN ext \in {<<"wasm">>, <<"png">>}

is_binary_file(fname) ==
  LET ext == splitext(fname)[2]
  IN ext \in BIN_EXTS

\* replace_prefix: [ok |-> the assertion held, ret |-> the value returned]
replace_prefix_skip_sep(s, bad_prefix, new_prefix) ==
  [ok |-> startswith(s, bad_prefix),
   ret |-> new_prefix \o SliceFrom(s, Len(bad_prefix) + 1)]

replace_prefix(s, bad_prefix, new_prefix) ==
  [ok |-> startswith(s, bad_prefix),
   ret |-> new_prefix \o SliceFrom(s, Len(bad_prefix))]

(***************************************************************************)
(* glob.iglob(f'{dname}/**', recursive=True) and find_files.               *)
(***************************************************************************)
\* every entry name the model's filesystem can hold, in a fixed order
NameOrder ==
  << <<"t", ".", "html">>, <<"l", ".", "png">>, <<"m", ".", "wasm">>,
     <<"d">>, <<"o">>, <<"s">>, <<".", "h">>, <<".", "g">>,
     <<"w">>, <<"w", "o">> >>

Rank(name) ==
  LET i == CHOOSE k \in 1..Len(NameOrder) : NameOrder[k] = name
  IN IF scanOrder = "asc" THEN i ELSE Len(NameOrder) + 1 - i

RECURSIVE InScanOrder(_)
InScanOrder(S) ==
  IF S = {} THEN <<>>
  ELSE LET x == CHOOSE n \in S : \A m \in S : Rank(n) <= Rank(m)
       IN <<x>> \o InScanOrder(S \ {x})

\* glob._listdir: the entry names of a directory, [] when it cannot be
\* scanned (not a directory)
listdir(p) ==
  IF ~isdir(p) THEN <<>>
  ELSE InScanOrder({split(q)[2] : q \in {e \in dirs \cup DOMAIN files :
                                          e # p /\ split(e)[1] = p /\ split(e)[2] # <<>>}})

\* glob._ishidden
ishidden(name) == name # <<>> /\ name[1] = "."

\* glob._join
glob_join(a, b) == IF a = <<>> \/ b = <<>> THEN (IF a = <<>> THEN b ELSE a) ELSE join(a, b)

\* a frame of glob._rlistdir: the directory (relative to dname) and the
\* entry names of its listing not yet visited
Frame(rel, dname) == [rel |-> rel, names |-> listdir(glob_join(dname, rel))]

\* the generator resumed: the next regular file it yields, if any.
\*   [walk |-> the generator's state, found |-> yielded a file, name |-> it]
RECURSIVE find_files_next(_, _)
find_files_next(w, dname) ==
  IF w = <<>> THEN [walk |-> <<>>, found |-> FALSE, name |-> <<>>]
  ELSE LET top == Head(w) IN
    IF top.names = <<>> THEN find_files_next(Tail(w), dname)
    ELSE LET x == Head(top.names)
             rest == <<[top EXCEPT !.names = Tail(@)]>> \o Tail(w)
         IN IF ishidden(x) THEN find_files_next(rest, dname)
            ELSE LET rel == glob_join(top.rel, x)
                     name == join(dname, rel)
                     w2 == <<Frame(rel, dname)>> \o rest
                 IN IF isfile(name)
                    THEN [walk |-> w2, found |-> TRUE, name |-> name]
                    ELSE find_files_next(w2, dname)

\* find_files(dname) just called: iglob first yields dname + "/" (not a
\* regular file) and then walks the listing of dname
find_files(dname) == <<Frame(<<>>, dname)>>

(***************************************************************************)
(* os.makedirs(name, exist_ok=True): [ok, dirs]                            *)
(***************************************************************************)
\* os.mkdir(name) within directories D
mkdir(name, D) ==
  IF name \in D \/ isfile(name) THEN [ok |-> FALSE, exist |-> TRUE, dirs |-> D]
  ELSE IF split(name)[1] \notin D THEN [ok |-> FALSE, exist |-> FALSE, dirs |-> D]
  ELSE [ok |-> TRUE, exist |-> FALSE, dirs |-> D \cup {name}]

RECURSIVE makedirs(_, _)
makedirs(name, D) ==
  LET head == split(name)[1]
      tail == split(name)[2]
      up == IF head # <<>> /\ tail # <<>> /\ ~(head \in D \/ isfile(head))
            THEN makedirs(head, D)
            ELSE [ok |-> TRUE, dirs |-> D]
  IN IF ~up.ok THEN up
     ELSE LET m == mkdir(name, up.dirs)
          IN IF m.ok THEN [ok |-> TRUE, dirs |-> m.dirs]
             ELSE IF name \in up.dirs THEN [ok |-> TRUE, dirs |-> up.dirs]
             ELSE [ok |-> FALSE, dirs |-> up.dirs]

(***************************************************************************)
(* File objects.                                                           *)
(***************************************************************************)
\* open(path, 'a...'): the file is created if missing and kept otherwise
open_append(path) ==
  [p \in DOMAIN files \cup {path} |-> IF p \in DOMAIN files THEN files[p] ELSE <<>>]

\* open(path, 'w...'): the file is created or truncated
open_write(path) ==
  [p \in DOMAIN files \cup {path} |-> IF p = path THEN <<>> ELSE files[p]]

\* fd.write(data) and the flush at close: data lands at the file position,
\* which is the end of what the handle has written so far
write(path, data) == [files EXCEPT ![path] = @ \o data]

\* __exit__ of a handle of the with statement
with_exit(h) == IF h = "open" THEN "closed" ELSE h

(***************************************************************************)
(* The initial states: a filesystem, a source-control state, the arguments.*)
(***************************************************************************)
InRoot == <<"/", "w">>

\* candidate regular files of the input tree, relative to the input root
Candidates ==
  { <<"t", ".", "html">>, <<"l", ".", "png">>, <<".", "h">>,
    <<"d", "/", "t", ".", "html">>, <<"d", "/", "m", ".", "wasm">>,
    <<".", "g", "/", "l", ".", "png">> }

\* candidate contents: the version marker twice and the other markers
\* around a CR LF; bytes the text encoding does not decode
SampleContents ==
  { MARK_VERSION \o <<"x">> \o MARK_VERSION \o MARK_NAV_BAR \o <<"\r", "\n">>
      \o MARK_GOOGLE,
    <<"BAD">> }

StaleContent == <<"old">>

\* the output root and what it holds at the start: nothing at all, an empty
\* directory, a file no input file maps to, a file an input file maps to, a
\* file where an input directory maps to
OutConfigs ==
  ({<<"/", "w", "o">>} \X {"absent", "empty", "stale", "overlap", "conflict"})
  \cup ({<<"/", "w", "/", "o">>} \X {"absent", "stale"})

StaleFiles(out, st) ==
  IF st = "stale" THEN {join(out, <<"s">>)}
  ELSE IF st = "overlap" THEN {join(out, <<"t", ".", "html">>)}
  ELSE IF st = "conflict" THEN {join(out, <<"d">>)}
  ELSE {}

RECURSIVE Ancestors(_)
Ancestors(p) ==
  LET h == dirname(p) IN IF h = p \/ h = <<>> THEN {} ELSE {h} \cup Ancestors(h)

Trees == {S \in SUBSET Candidates : Cardinality(S) <= MaxFiles}

NoCur == [in |-> <<>>, out |-> <<>>, rmode |-> "", wmode |-> ""]
NoLast == [in |-> <<>>, out |-> <<>>, src |-> <<>>, ver |-> <<>>]
None == [isNone |-> TRUE, str |-> <<>>]

\* the process just started: module globals set, args parsed and made absolute
Fresh(out) ==
  /\ args = [input |-> InRoot, output |-> out]
  /\ VERSION_STR = None
  /\ pc = "start"
  /\ walk = <<>>
  /\ cur = NoCur
  /\ ifd = "none"
  /\ ofd = "none"
  /\ err = ""
  /\ last = NoLast
  /\ used = {}
  /\ queries = 0
  /\ warned = FALSE

InitFS(kind, S, c, out, st) ==
  LET inFiles == IF kind = "dir" THEN {join(InRoot, r) : r \in S}
                 ELSE IF kind = "file" THEN {InRoot} ELSE {}
      stale == StaleFiles(out, st)
      f == [p \in inFiles \cup stale |->
              IF p \in stale THEN StaleContent
              ELSE IF kind = "file" THEN <<"x">>
              ELSE c[SliceFrom(p, Len(InRoot) + 1)]]
      d == {<<"/">>} \cup (IF kind = "dir" THEN {InRoot} ELSE {})
           \cup UNION {Ancestors(p) : p \in inFiles \cup stale}
           \cup (IF st # "absent" THEN {out} \cup Ancestors(out) ELSE {})
  IN /\ files = f
     /\ dirs = d
     /\ files0 = f
     /\ dirs0 = d

Init ==
  \E kind \in {"dir", "file", "missing"}, S \in Trees, oc \in OutConfigs,
     g \in {"missing", "norepo", "c1"}, ord \in {"asc", "desc"} :
    \E c \in [S -> SampleContents] :
      LET out == oc[1]
          st == oc[2]
      IN
      /\ kind # "dir" => S = {}
      /\ (kind # "dir" /\ startswith(out, InRoot \o <<"/">>)) => st = "absent"
      /\ InitFS(kind, S, c, out, st)
      /\ git = g
      /\ scanOrder = ord
      /\ Fresh(out)
      /\ run = 1
      /\ files1 = files

(***************************************************************************)
(* The program.                                                            *)
(***************************************************************************)
\* an exception caught per file, the loop going on with the next one
RaiseCaught(e) ==
  /\ pc' = "loop"
  /\ err' = e

\* an exception nothing catches: it leaves the for loop and main, and the
\* process ends with a traceback
Raise(e) ==
  /\ pc' = "failed"
  /\ err' = e

\* __main__ without its assertion
StartUnchecked ==
  /\ pc = "start"
  /\ pc' = "loop"
  /\ walk' = find_files(args.input)
  /\ warned' = isdir(args.output)
  /\ UNCHANGED <<files, dirs, git, scanOrder, args, VERSION_STR, cur, ifd, ofd,
                 err, last, used, queries, files0, dirs0, run, files1>>

\* __main__ clearing an output directory that exists
StartCleared ==
  /\ pc = "start"
  /\ IF ~isdir(args.input)
     THEN /\ Raise("AssertionError: does not exist")
          /\ UNCHANGED <<walk, warned, files>>
     ELSE /\ pc' = "loop"
          /\ walk' = find_files(args.input)
          /\ warned' = isdir(args.output)
          /\ files' = [p \in {q \in DOMAIN files :
                                ~startswith(q, args.output \o <<"/">>)} |-> files[p]]
          /\ err' = err
  /\ UNCHANGED <<dirs, git, scanOrder, args, VERSION_STR, cur, ifd, ofd,
                 last, used, queries, files0, dirs0, run, files1>>

\* __main__: the assertion on the input root, the warning, the call of main
\* (whose for statement creates the find_files generator)
Start ==
  /\ pc = "start"
  /\ IF ~isdir(args.input)
     THEN /\ Raise("AssertionError: does not exist")
          /\ UNCHANGED <<walk, warned>>
     ELSE /\ pc' = "loop"
          /\ walk' = find_files(args.input)
          /\ warned' = isdir(args.output)
          /\ err' = err
  /\ UNCHANGED <<files, dirs, git, scanOrder, args, VERSION_STR, cur, ifd, ofd,
                 last, used, queries, files0, dirs0, run, files1>>

\* main, from the head of the for loop to the with statement entered: the
\* next file of the walk, its output path, the directories, both opens
NextFile ==
  /\ pc = "loop"
  /\ LET r == find_files_next(walk, args.input) IN
     /\ walk' = r.walk
     /\ IF ~r.found
        THEN /\ pc' = "done"
             /\ cur' = NoCur
             /\ UNCHANGED <<files, dirs, ifd, ofd, err>>
        ELSE LET in_fname == r.name
                 rp == replace_prefix(in_fname, args.input, args.output)
                 out_fname == rp.ret
                 md == makedirs(dirname(out_fname), dirs)
                 rmode == IF is_binary_file(in_fname) THEN "rb" ELSE "rt"
                 wmode == IF is_binary_file(out_fname) THEN "wb" ELSE "wt"
             IN IF ~rp.ok
                THEN /\ Raise("AssertionError: replace_prefix")
                     /\ cur' = [NoCur EXCEPT !.in = in_fname]
                     /\ UNCHANGED <<files, dirs, ifd, ofd>>
                ELSE IF ~md.ok
                THEN /\ Raise("OSError: makedirs")
                     /\ cur' = [NoCur EXCEPT !.in = in_fname, !.out = out_fname]
                     /\ dirs' = md.dirs
                     /\ UNCHANGED <<files, ifd, ofd>>
                ELSE /\ dirs' = md.dirs
                     /\ cur' = [in |-> in_fname, out |-> out_fname,
                                rmode |-> rmode, wmode |-> wmode]
                     /\ IF out_fname \in md.dirs
                        THEN \* open(out_fname) raises IsADirectoryError,
                             \* the with statement closes ifd
                             /\ Raise("IsADirectoryError: open")
                             /\ ifd' = with_exit("open")
                             /\ UNCHANGED <<files, ofd>>
                        ELSE /\ files' = open_write(out_fname)
                             /\ ifd' = "open"
                             /\ ofd' = "open"
                             /\ pc' = "opened"
                             /\ err' = err
  /\ UNCHANGED <<git, scanOrder, args, VERSION_STR, last, used, queries,
                 files0, dirs0, run, files1, warned>>

\* the body of the with statement for a binary file: copy, continue
CopyBinary ==
  /\ pc = "opened"
  /\ is_binary_file(cur.in)
  /\ ifd' = with_exit(ifd)
  /\ ofd' = with_exit(ofd)
  /\ IF cur.rmode = "rt" /\ ~CanDecode(files[cur.in])
     THEN /\ Raise("UnicodeDecodeError: read")
          /\ UNCHANGED <<files, last>>
     ELSE IF (cur.rmode = "rb") # (cur.wmode = "wb")
     THEN /\ Raise("TypeError: write")
          /\ UNCHANGED <<files, last>>
     ELSE LET data == IF cur.rmode = "rb" THEN files[cur.in]
                      ELSE TextWrite(TextRead(files[cur.in]))
          IN /\ files' = write(cur.out, data)
             /\ last' = [in |-> cur.in, out |-> cur.out,
                         src |-> files[cur.in], ver |-> <<>>]
             /\ pc' = "loop"
             /\ err' = err
  /\ UNCHANGED <<dirs, git, scanOrder, args, VERSION_STR, walk, cur, used,
                 queries, files0, dirs0, run, files1, warned>>

\* the body of the with statement for a text file: read, three replaces,
\* write
SubstituteText ==
  /\ pc = "opened"
  /\ ~is_binary_file(cur.in)
  /\ ifd' = with_exit(ifd)
  /\ ofd' = with_exit(ofd)
  /\ IF cur.rmode = "rt" /\ ~CanDecode(files[cur.in])
     THEN /\ Raise("UnicodeDecodeError: read")
          /\ UNCHANGED <<files, last, VERSION_STR, used, queries>>
     ELSE IF cur.rmode = "rb"
     THEN \* bytes.replace with str arguments
          /\ Raise("TypeError: replace")
          /\ UNCHANGED <<files, last, VERSION_STR, used, queries>>
     ELSE LET s0 == TextRead(files[cur.in])
              s1 == replace(s0, MARK_NAV_BAR, get_nav_bar)
              v == get_version_str
              s2 == replace(s1, MARK_VERSION, v.ret)
              s3 == replace(s2, MARK_GOOGLE, get_google_shit)
          IN /\ VERSION_STR' = v.global
             /\ queries' = queries + v.ran
             /\ IF v.raised
                THEN /\ Raise("FileNotFoundError: git")
                     /\ UNCHANGED <<files, last, used>>
                ELSE IF cur.wmode = "wb"
                THEN /\ Raise("TypeError: write")
                     /\ used' = used \cup {v.ret}
                     /\ UNCHANGED <<files, last>>
                ELSE /\ files' = write(cur.out, TextWrite(s3))
                     /\ used' = used \cup {v.ret}
                     /\ last' = [in |-> cur.in, out |-> cur.out,
                                 src |-> files[cur.in], ver |-> v.ret]
                     /\ pc' = "loop"
                     /\ err' = err
  /\ UNCHANGED <<dirs, git, scanOrder, args, walk, cur,
                 files0, dirs0, run, files1, warned>>

\* the environment, while the program runs: a commit is made, or the git
\* executable goes away
GitChange ==
  /\ pc \in {"start", "loop", "opened"}
  /\ git = "c1"
  /\ git' \in {"c2", "missing"}
  /\ UNCHANGED <<files, dirs, scanOrder, args, VERSION_STR, pc, walk, cur, ifd,
                 ofd, err, last, used, queries, files0, dirs0, run, files1, warned>>

Next == Start \/ NextFile \/ CopyBinary \/ SubstituteText \/ GitChange

Spec == Init /\ [][Next]_vars

(***************************************************************************)
(* Two runs in succession, the source-control state left alone: the second *)
(* process starts when the first has ended.                                *)
(***************************************************************************)
Rerun ==
  /\ run = 1
  /\ pc \in {"done", "failed"}
  /\ run' = 2
  /\ files1' = files
  /\ VERSION_STR' = None
  /\ pc' = "start"
  /\ walk' = <<>>
  /\ cur' = NoCur
  /\ ifd' = "none"
  /\ ofd' = "none"
  /\ err' = ""
  /\ last' = NoLast
  /\ used' = {}
  /\ queries' = 0
  /\ warned' = FALSE
  /\ UNCHANGED <<files, dirs, git, scanOrder, args, files0, dirs0>>

NextTwice == Start \/ NextFile \/ CopyBinary \/ SubstituteText \/ Rerun

SpecTwice == Init /\ [][NextTwice]_vars

(***************************************************************************)
(* One text file of arbitrary content, to exercise the substitution.       *)
(***************************************************************************)
Segments ==
  { MARK_NAV_BAR, MARK_VERSION, MARK_GOOGLE, <<"<!--">>, <<"VER">>, <<"-->">>,
    <<"\r">>, <<"\n">>, <<"BAD">> }

RECURSIVE Concats(_)
Concats(n) ==
  IF n = 0 THEN {<<>>}
  ELSE LET shorter == Concats(n - 1)
       IN shorter \cup {a \o b : a \in shorter, b \in Segments}

InitText ==
  \E content \in Concats(MaxSegs), g \in {"norepo", "c1"} :
    LET S == {<<"t", ".", "html">>}
        c == [r \in S |-> content]
        out == <<"/", "w", "o">>
    IN /\ InitFS("dir", S, c, out, "absent")
       /\ git = g
       /\ scanOrder = "asc"
       /\ Fresh(out)
       /\ run = 1
       /\ files1 = files

NextText == Start \/ NextFile \/ SubstituteText

SpecText == InitText /\ [][NextText]_vars

(***************************************************************************)
(* Vocabulary of the properties.                                           *)
(***************************************************************************)
TypeOK ==
  /\ pc \in {"start", "loop", "opened", "done", "failed"}
  /\ ifd \in {"none", "open", "closed"}
  /\ ofd \in {"none", "open", "closed"}
  /\ git \in GitStates
  /\ run \in {1, 2}

UnderRoot(p, root) == startswith(p, root \o <<"/">>)

\* the path relative to root, without a leading separator
RelTo(p, root) == SliceFrom(p, Len(root) + 1)

InputFiles(f) == {p \in DOMAIN f : UnderRoot(p, args.input)}
OutputFiles(f) == {p \in DOMAIN f : UnderRoot(p, args.output)}

InTree(f) == [p \in InputFiles(f) |-> f[p]]
OutTree(f) == [p \in OutputFiles(f) |-> f[p]]

Nested == UnderRoot(args.output, args.input)

Contains(s, sub) ==
  \E i \in 1..(Len(s) + 1 - Len(sub)) : SubSeq(s, i, i + Len(sub) - 1) = sub

endswith(s, suffix) ==
  Len(suffix) <= Len(s) /\ SubSeq(s, Len(s) + 1 - Len(suffix), Len(s)) = suffix

\* some component of a relative path starts with a dot
HiddenRel(rel) ==
  \E i \in 1..Len(rel) : rel[i] = "." /\ (i = 1 \/ rel[i - 1] = "/")

HasBinExt(p) == endswith(p, <<".", "png">>) \/ endswith(p, <<".", "wasm">>)

\* every marker replaced by its content in one pass from left to right
RECURSIVE Substituted(_, _)
Substituted(s, ver) ==
  IF s = <<>> THEN <<>>
  ELSE IF startswith(s, MARK_NAV_BAR)
       THEN get_nav_bar \o Substituted(SliceFrom(s, Len(MARK_NAV_BAR)), ver)
  ELSE IF startswith(s, MARK_VERSION)
       THEN ver \o Substituted(SliceFrom(s, Len(MARK_VERSION)), ver)
  ELSE IF startswith(s, MARK_GOOGLE)
       THEN get_google_shit \o Substituted(SliceFrom(s, Len(MARK_GOOGLE)), ver)
  ELSE <<Head(s)>> \o Substituted(Tail(s), ver)

NoMarker(s) ==
  ~Contains(s, MARK_NAV_BAR) /\ ~Contains(s, MARK_VERSION) /\ ~Contains(s, MARK_GOOGLE)

\* the file whose processing just completed was read and written as text
TextJustWritten == pc = "loop" /\ cur.in # <<>> /\ last.in = cur.in /\ cur.rmode = "rt"

(***************************************************************************)
(* C1: after a run that completes normally into an output root that held   *)
(* no file (and lies outside the input root), the relative paths of the    *)
(* files under the output root are the relative paths of all the regular   *)
(* files under the input root.                                             *)
(***************************************************************************)
C1_OutputMirrorsInput ==
  (run = 1 /\ pc = "done" /\ ~Nested /\ OutputFiles(files0) = {})
    => {RelTo(p, args.output) : p \in OutputFiles(files)}
         = {RelTo(p, args.input) : p \in InputFiles(files)}

\* what the code does instead: the files mirrored are those with no
\* dot-leading component below the input root
VisibleFilesMirrored ==
  (run = 1 /\ pc = "done" /\ ~Nested /\ OutputFiles(files0) = {})
    => {RelTo(p, args.output) : p \in OutputFiles(files)}
         = {r \in {RelTo(p, args.input) : p \in InputFiles(files)} : ~HiddenRel(r)}

(***************************************************************************)
(* C2: a file whose extension is '.wasm' or '.png' is opened 'rb' and its  *)
(* output 'wb' (the two classifications agree for every file), and once    *)
(* its processing has ended the output holds exactly the input's bytes,    *)
(* markers included.                                                       *)
(***************************************************************************)
C2_BinaryCopiedVerbatim ==
  /\ cur.rmode # "" => ((cur.rmode = "rb") <=> (cur.wmode = "wb"))
  /\ (cur.rmode # "" /\ HasBinExt(cur.in)) => cur.rmode = "rb"
  /\ (pc = "loop" /\ cur.in # <<>> /\ HasBinExt(cur.in))
       => /\ last.in = cur.in
          /\ files[cur.out] = last.src
          /\ files[cur.in] = last.src

C2_Witness ==
  /\ pc = "loop"
  /\ HasBinExt(cur.in)
  /\ cur.wmode = "wb"
  /\ Contains(files[cur.in], MARK_VERSION)
  /\ files[cur.out] = files[cur.in]

(***************************************************************************)
(* C3, as amended: when main has written the output of a text file, that   *)
(* output is the input as read in text mode (CR LF and CR become LF) with  *)
(* every occurrence of each of the three markers replaced by its content   *)
(* and the rest unchanged, and holds no marker.                            *)
(***************************************************************************)
C3_TextSubstituted ==
  TextJustWritten
    => /\ files[cur.out] = Substituted(UniversalNewlines(last.src), VERSION_STR.str)
       /\ NoMarker(files[cur.out])

C3_Witness ==
  /\ TextJustWritten
  /\ last.src = MARK_VERSION \o <<"\r">> \o MARK_VERSION
  /\ files[cur.out] = VERSION_STR.str \o <<"\n">> \o VERSION_STR.str

(***************************************************************************)
(* C3, as stated: the output of a text file is the input with the markers  *)
(* replaced and all other text left unchanged.                             *)
(***************************************************************************)
C3_TextOtherwiseUnchanged ==
  TextJustWritten
    => /\ files[cur.out] = Substituted(last.src, VERSION_STR.str)
       /\ NoMarker(files[cur.out])

(***************************************************************************)
(* C4: within one process the source-control queries are made at most once *)
(* (two subprocess calls), and every version string substituted is the one *)
(* cached value, whatever the source-control state has become.             *)
(***************************************************************************)
C4_VersionResolvedOnce ==
  /\ queries <= 2
  /\ Cardinality(used) <= 1
  /\ used # {} => (~VERSION_STR.isNone /\ used = {VERSION_STR.str})

C4_Witness ==
  /\ pc = "done"
  /\ git = "c2"
  /\ VERSION_STR.str = <<"D1", " ", "(", "c1", ")">>
  /\ Cardinality({p \in OutputFiles(files) : Contains(files[p], VERSION_STR.str)}) >= 2

(***************************************************************************)
(* C5: files the output root held at the start whose relative path is that *)
(* of no input file are still there with their content; every file created *)
(* or changed is at the remapped path of a file under the input root; and  *)
(* an output directory that exists leads to the warning and to main being  *)
(* called, not to a failure of the start.                                  *)
(***************************************************************************)
C5_StaleFilesUntouched ==
  run = 1 =>
    /\ \A p \in OutputFiles(files0) :
         RelTo(p, args.output) \notin {RelTo(q, args.input) : q \in InputFiles(files)}
           => (p \in DOMAIN files /\ files[p] = files0[p])
    /\ \A p \in DOMAIN files :
         (p \notin DOMAIN files0 \/ files[p] # files0[p])
           => \E q \in InputFiles(files) :
                p = args.output \o <<"/">> \o RelTo(q, args.input)
    /\ \A p \in DOMAIN files0 : p \in DOMAIN files
    /\ (pc # "start" /\ args.input \in dirs0 /\ args.output \in dirs0)
         => (warned /\ err # "AssertionError: does not exist")

C5_Witness ==
  /\ run = 1
  /\ pc = "done"
  /\ warned
  /\ join(args.output, <<"s">>) \in DOMAIN files0
  /\ files[join(args.output, <<"s">>)] = StaleContent
  /\ \E p \in OutputFiles(files) : p \notin DOMAIN files0

(***************************************************************************)
(* C6: when the input root is not a directory the program ends in the      *)
(* assertion of __main__: main is not entered (no walk, pc never in the    *)
(* loop) and the filesystem is what it was.                                *)
(***************************************************************************)
C6_MissingInputFailsFirst ==
  (run = 1 /\ args.input \notin dirs0)
    => /\ pc \in {"start", "failed"}
       /\ pc = "failed" => err = "AssertionError: does not exist"
       /\ walk = <<>>
       /\ cur = NoCur
       /\ files = files0
       /\ dirs = dirs0

C6_Witness ==
  /\ pc = "failed"
  /\ args.input \notin dirs0
  /\ args.input \in DOMAIN files0
  /\ args.output \notin dirs

C8_NoCrashWithoutGit == err # "FileNotFoundError: git"

\* the part that does hold: queries that fail (git runs, no repository)
\* give the placeholder " ()" and the text file is written with it
QueryFailureDegrades ==
  (TextJustWritten /\ git = "norepo")
    => /\ VERSION_STR.str = <<" ", "(", ")">>
       /\ files[cur.out] = Substituted(UniversalNewlines(last.src), <<" ", "(", ")">>)

(***************************************************************************)
(* C9: between files and at the end no handle is open; and once a file's   *)
(* processing has raised, the process has ended and nothing is read,       *)
(* created or written any more: the filesystem, the walk and the handles   *)
(* stay as the failure left them.                                          *)
(***************************************************************************)
C9_AbortAtFirstFailure ==
  /\ [](pc \in {"loop", "done", "failed"} => (ifd # "open" /\ ofd # "open"))
  /\ [](err # "" => pc = "failed")
  /\ [][err # "" => UNCHANGED <<files, dirs, walk, cur, ifd, ofd, pc>>]_vars

C9_Witness ==
  /\ pc = "failed"
  /\ err = "UnicodeDecodeError: read"
  /\ ifd = "closed"
  /\ ofd = "closed"
  /\ last.in # <<>>
  /\ files[last.out] # <<>>
  /\ files[cur.out] = <<>>
  /\ \E q \in InputFiles(files) :
       /\ ~HiddenRel(RelTo(q, args.input))
       /\ (args.output \o <<"/">> \o RelTo(q, args.input)) \notin DOMAIN files

====
